---- MODULE Spec2Model ----
(***************************************************************************)
(* Model of print_image.py: one invocation of main(), which calls          *)
(* print_image_to_network_printer() and exits with its result.             *)
(*                                                                         *)
(* The script is sequential.  The state is the position in the function,   *)
(* the bitmap held in `img`, the printer object and its socket, and what   *)
(* has been written to the printer.  The calls into Pillow and python-     *)
(* escpos are steps whose outcome (return or raise) is chosen by the       *)
(* environment.                                                            *)
(***************************************************************************)
EXTENDS Integers, Sequences, FiniteSets, TLC

(***************************************************************************)
(* Bounds on the inputs.                                                   *)
(***************************************************************************)
MaxImgWidth == 11
MaxImgHeight == 11
MaxWidthArg == 15

(***************************************************************************)
(* Double-precision arithmetic of lines 42-43:                             *)
(*     ratio = max_width / img.width                                       *)
(*     new_height = int(img.height * ratio)                                *)
(* A positive double is [m, e]: m is the 53-bit significand, most          *)
(* significant bit first (m[1] = 1), e the exponent of that bit, so the    *)
(* value is (m[1].m[2]...m[53] in binary) * 2^e.  Both operations round to *)
(* nearest, ties to even, as CPython's int/int true division and float     *)
(* multiplication do.                                                      *)
(***************************************************************************)
MantissaBits == 53

RECURSIVE Pow2(_)
Pow2(n) == IF n = 0 THEN 1 ELSE 2 * Pow2(n - 1)

\* floor(log2(a / b)) for integers a, b > 0
RECURSIVE ExpOf(_, _)
ExpOf(a, b) ==
    IF a >= 2 * b THEN 1 + ExpOf(a, 2 * b)
    ELSE IF a < b THEN ExpOf(2 * a, b) - 1
    ELSE 0

\* k quotient bits of n / d (d <= n < 2d at the start), most significant
\* first; rem is twice the remainder left after the last bit
RECURSIVE LongDiv(_, _, _, _)
LongDiv(n, d, k, acc) ==
    IF k = 0 THEN [bits |-> acc, rem |-> n]
    ELSE LET b == IF n >= d THEN 1 ELSE 0
         IN  LongDiv(2 * (n - b * d), d, k - 1, Append(acc, b))

Rev(s) == [i \in 1..Len(s) |-> s[Len(s) + 1 - i]]

\* add one to a bit string given least significant bit first
RECURSIVE IncrLsb(_)
IncrLsb(s) ==
    IF s = <<>> THEN <<1>>
    ELSE IF Head(s) = 0 THEN <<1>> \o Tail(s)
    ELSE <<0>> \o IncrLsb(Tail(s))

\* multiply a bit string (least significant bit first) by a small integer
RECURSIVE MulLsb(_, _, _)
MulLsb(s, k, carry) ==
    IF s = <<>>
    THEN IF carry = 0 THEN <<>>
         ELSE <<carry % 2>> \o MulLsb(<<>>, k, carry \div 2)
    ELSE LET t == k * Head(s) + carry
         IN  <<t % 2>> \o MulLsb(Tail(s), k, t \div 2)

\* value of a bit string given most significant bit first
RECURSIVE BitsToInt(_, _)
BitsToInt(s, acc) ==
    IF s = <<>> THEN acc ELSE BitsToInt(Tail(s), 2 * acc + Head(s))

\* round a bit string (least significant first, leading bit last, exponent
\* of the leading bit e) to MantissaBits bits, nearest, ties to even
RoundLsb(p, e) ==
    LET j       == Len(p) - MantissaBits
        kept    == SubSeq(p, j + 1, Len(p))
        guard   == IF j > 0 THEN p[j] ELSE 0
        sticky  == \E i \in 1..(j - 1) : p[i] = 1
        up      == guard = 1 /\ (sticky \/ kept[1] = 1)
        r       == IF up THEN IncrLsb(kept) ELSE kept
    IN  IF Len(r) > MantissaBits
        THEN [m |-> Rev(Tail(r)), e |-> e + 1]
        ELSE [m |-> Rev(r), e |-> e]

\* a / b for integers a, b > 0, as a double (line 42)
FloatDiv(a, b) ==
    LET e  == ExpOf(a, b)
        n0 == IF e < 0 THEN a * Pow2(0 - e) ELSE a
        d0 == IF e > 0 THEN b * Pow2(e) ELSE b
        q  == LongDiv(n0, d0, MantissaBits, <<>>)
        up == q.rem > d0 \/ (q.rem = d0 /\ q.bits[MantissaBits] = 1)
        r  == IF up THEN IncrLsb(Rev(q.bits)) ELSE Rev(q.bits)
    IN  IF Len(r) > MantissaBits
        THEN [m |-> Rev(Tail(r)), e |-> e + 1]
        ELSE [m |-> Rev(r), e |-> e]

\* k * f for an integer k > 0 and a positive double f (line 43, the product)
FloatMulInt(k, f) ==
    LET p == MulLsb(Rev(f.m), k, 0)
    IN  RoundLsb(p, f.e + (Len(p) - MantissaBits))

\* int(f) for a positive double f: truncation (line 43, the conversion)
FloatTrunc(f) ==
    IF f.e < 0 THEN 0 ELSE BitsToInt(SubSeq(f.m, 1, f.e + 1), 0)

\* new_height with round() in place of int(): the quotient rounded to
\* nearest
NewHeightRounded(w, h, mw) ==
    IF mw >= 0 THEN (2 * h * mw + w) \div (2 * w)
    ELSE 0 - ((2 * h * (0 - mw) + w) \div (2 * w))

\* new_height of lines 42-43 for img.width = w > 0, img.height = h > 0
NewHeight(w, h, mw) ==
    IF mw = 0 THEN 0
    ELSE IF mw > 0 THEN FloatTrunc(FloatMulInt(h, FloatDiv(mw, w)))
    ELSE 0 - FloatTrunc(FloatMulInt(h, FloatDiv(0 - mw, w)))


\* the size with the two arguments of resize exchanged
ScaledSizeSwapped(w, h, mw) ==
    IF w # mw THEN [w |-> NewHeight(w, h, mw), h |-> mw]
    ELSE [w |-> w, h |-> h]

\* size of the bitmap after lines 41-45 when resize returns
ScaledSize(w, h, mw) ==
    IF w # mw THEN [w |-> mw, h |-> NewHeight(w, h, mw)]
    ELSE [w |-> w, h |-> h]

(***************************************************************************)
(* State.                                                                  *)
(***************************************************************************)
VARIABLES
    pc,            \* the statement about to run
    image_path,    \* argument: "missing", "corrupt" or "valid" file
    profile,       \* argument: a profile name the library knows or not
    max_width,     \* argument --width
    orig,          \* size of the image as decoded (line 40)
    img,           \* the local img: width, height, mode
    printer,       \* the local printer: "none", "named", "default"
    sock,          \* the printer's socket: "none", "open", "closed"
    connAttempts,  \* connections attempted by Network(...)
    log,           \* what was sent to the printer, in order
    warned,        \* the warning of line 52 was printed
    faults,        \* the steps that raised (or found the file missing)
    handler,       \* the except clause that ran: line 67 or line 71
    result,        \* return value of print_image_to_network_printer
    exitCode       \* argument of sys.exit, -1 while running

vars == <<pc, image_path, profile, max_width, orig, img, printer, sock,
          connAttempts, log, warned, faults, handler, result, exitCode>>

NoImg == [w |-> 0, h |-> 0, mode |-> "none"]
NoSize == [w |-> 0, h |-> 0]

Paths == {"missing", "corrupt", "valid"}
Profiles == {"known", "unknown"}
WidthArgs == (0 - 1)..MaxWidthArg
Modes == {"RGB", "L"}

Init ==
    /\ pc = "main"
    /\ image_path \in Paths
    /\ profile \in Profiles
    /\ max_width \in WidthArgs
    /\ orig = NoSize
    /\ img = NoImg
    /\ printer = "none"
    /\ sock = "none"
    /\ connAttempts = 0
    /\ log = <<>>
    /\ warned = FALSE
    /\ faults = {}
    /\ handler = "none"
    /\ result = "none"
    /\ exitCode = 0 - 1

\* an exception raised at `step` reaches the handlers of lines 67-73:
\* ConnectionError is caught at line 67, anything else at line 71; both
\* return False
Raise(step, kind) ==
    /\ faults' = faults \cup {step}
    /\ handler' = kind
    /\ result' = "False"
    /\ pc' = "return"

\* main(), lines 98-116: parse the arguments and call the function
Main ==
    /\ pc = "main"
    /\ pc' = "check"
    /\ UNCHANGED <<image_path, profile, max_width, orig, img, printer, sock,
                   connAttempts, log, warned, faults, handler, result,
                   exitCode>>

\* lines 27-29 with `return True` in place of `return False`
FileCheckReturnsTrue ==
    /\ pc = "check"
    /\ IF image_path = "missing"
       THEN /\ faults' = faults \cup {"missing"}
            /\ result' = "True"
            /\ pc' = "return"
       ELSE /\ pc' = "open"
            /\ UNCHANGED <<faults, result>>
    /\ UNCHANGED <<image_path, profile, max_width, orig, img, printer, sock,
                   connAttempts, log, warned, handler, exitCode>>

\* lines 27-29: a missing file returns False at once
FileCheck ==
    /\ pc = "check"
    /\ IF image_path = "missing"
       THEN /\ faults' = faults \cup {"missing"}
            /\ result' = "False"
            /\ pc' = "return"
       ELSE /\ pc' = "open"
            /\ UNCHANGED <<faults, result>>
    /\ UNCHANGED <<image_path, profile, max_width, orig, img, printer, sock,
                   connAttempts, log, warned, handler, exitCode>>

\* line 33: Image.open raises on a file it cannot decode, else yields a
\* bitmap of positive width and height
OpenImage ==
    /\ pc = "open"
    /\ IF image_path = "corrupt"
       THEN /\ Raise("decode", "Exception")
            /\ UNCHANGED <<orig, img>>
       ELSE /\ \E w \in 1..MaxImgWidth, h \in 1..MaxImgHeight, m \in Modes :
                 /\ img' = [w |-> w, h |-> h, mode |-> m]
                 /\ orig' = [w |-> w, h |-> h]
            /\ pc' = "convert"
            /\ UNCHANGED <<faults, handler, result>>
    /\ UNCHANGED <<image_path, profile, max_width, printer, sock,
                   connAttempts, log, warned, exitCode>>

\* lines 36-37: convert to RGB unless already RGB; convert may raise
Convert ==
    /\ pc = "convert"
    /\ IF img.mode # "RGB"
       THEN \E ok \in BOOLEAN :
              IF ok
              THEN /\ img' = [img EXCEPT !.mode = "RGB"]
                   /\ pc' = "scale"
                   /\ UNCHANGED <<faults, handler, result>>
              ELSE /\ Raise("convert", "Exception")
                   /\ UNCHANGED img
       ELSE /\ pc' = "scale"
            /\ UNCHANGED <<img, faults, handler, result>>
    /\ UNCHANGED <<image_path, profile, max_width, orig, printer, sock,
                   connAttempts, log, warned, exitCode>>

\* line 44, the call: Image.resize raises ValueError ("height and width
\* must be > 0") when a requested dimension is below 1
ResizeRejects(w, h) == w < 1 \/ h < 1

\* lines 41-45 with the resize wrapped so that its exception is dropped and
\* the run goes on with the bitmap it has
ScaleSwallowsResizeError ==
    /\ pc = "scale"
    /\ IF img.w # max_width
       THEN LET s == ScaledSize(img.w, img.h, max_width)
            IN  \E ok \in BOOLEAN :
                  IF ok /\ ~ResizeRejects(s.w, s.h)
                  THEN /\ img' = [w |-> s.w, h |-> s.h, mode |-> img.mode]
                       /\ UNCHANGED faults
                  ELSE /\ faults' = faults \cup {"resize"}
                       /\ UNCHANGED img
       ELSE UNCHANGED <<img, faults>>
    /\ pc' = "connect"
    /\ UNCHANGED <<image_path, profile, max_width, orig, printer, sock,
                   connAttempts, log, warned, handler, result, exitCode>>

\* lines 41-45: when the width differs from max_width, resize to
\* (max_width, new_height).  The script checks neither value itself: a
\* size the library rejects, or any other failure of resize, raises and
\* ends the run in the handler of line 71.
Scale ==
    /\ pc = "scale"
    /\ IF img.w # max_width
       THEN LET s == ScaledSize(img.w, img.h, max_width)
            IN  \E ok \in BOOLEAN :
                  IF ok /\ ~ResizeRejects(s.w, s.h)
                  THEN /\ img' = [w |-> s.w, h |-> s.h, mode |-> img.mode]
                       /\ pc' = "connect"
                       /\ UNCHANGED <<faults, handler, result>>
                  ELSE /\ Raise("resize", "Exception")
                       /\ UNCHANGED img
       ELSE /\ pc' = "connect"
            /\ UNCHANGED <<img, faults, handler, result>>
    /\ UNCHANGED <<image_path, profile, max_width, orig, printer, sock,
                   connAttempts, log, warned, exitCode>>

\* lines 49-51 without the inner try: a profile the library does not know
\* ends the run in the handler of line 71
ConnectNoFallback ==
    /\ pc = "connect"
    /\ IF profile = "unknown"
       THEN /\ Raise("profile", "Exception")
            /\ UNCHANGED <<printer, sock, connAttempts>>
       ELSE /\ connAttempts' = connAttempts + 1
            /\ \E ok \in BOOLEAN :
                 IF ok
                 THEN /\ printer' = "named"
                      /\ sock' = "open"
                      /\ pc' = "image"
                      /\ UNCHANGED <<faults, handler, result>>
                 ELSE /\ faults' = faults \cup {"connect"}
                      /\ pc' = "fallback"
                      /\ UNCHANGED <<printer, sock, handler, result>>
    /\ UNCHANGED <<image_path, profile, max_width, orig, img, log, warned,
                   exitCode>>

\* lines 49-51: Network(printer_ip, port, profile) connects to the printer
\* ("Connecting to printer at ...").  It raises for a profile name the
\* library does not know, before any connection is made, and raises when
\* the connection cannot be opened.  `except Exception` at line 51 catches
\* either.
Connect ==
    /\ pc = "connect"
    /\ IF profile = "unknown"
       THEN /\ faults' = faults \cup {"profile"}
            /\ pc' = "fallback"
            /\ UNCHANGED <<printer, sock, connAttempts, handler, result>>
       ELSE /\ connAttempts' = connAttempts + 1
            /\ \E ok \in BOOLEAN :
                 IF ok
                 THEN /\ printer' = "named"
                      /\ sock' = "open"
                      /\ pc' = "image"
                      /\ UNCHANGED <<faults, handler, result>>
                 ELSE /\ faults' = faults \cup {"connect"}
                      /\ pc' = "fallback"
                      /\ UNCHANGED <<printer, sock, handler, result>>
    /\ UNCHANGED <<image_path, profile, max_width, orig, img, log, warned,
                   exitCode>>

\* lines 52-53: print the warning and call Network(printer_ip, port) with
\* no profile; a connection fault here reaches the handler of line 67
Fallback ==
    /\ pc = "fallback"
    /\ warned' = TRUE
    /\ connAttempts' = connAttempts + 1
    /\ \E ok \in BOOLEAN :
         IF ok
         THEN /\ printer' = "default"
              /\ sock' = "open"
              /\ pc' = "image"
              /\ UNCHANGED <<faults, handler, result>>
         ELSE /\ Raise("connect", "ConnectionError")
              /\ UNCHANGED <<printer, sock>>
    /\ UNCHANGED <<image_path, profile, max_width, orig, img, log,
                   exitCode>>

\* the exception classes a failed write can have: a socket error that is a
\* ConnectionError (line 67) or any other error (line 71)
WriteFaultKinds == {"ConnectionError", "Exception"}

\* line 57 with the fault swallowed: the run goes on to line 58
WriteImageSwallow ==
    /\ pc = "image"
    /\ \E ok \in BOOLEAN :
         IF ok
         THEN /\ log' = Append(log, "image")
              /\ UNCHANGED faults
         ELSE /\ faults' = faults \cup {"image"}
              /\ UNCHANGED log
    /\ pc' = "ln"
    /\ UNCHANGED <<image_path, profile, max_width, orig, img, printer, sock,
                   connAttempts, warned, handler, result, exitCode>>

\* line 57: printer.image(img) writes the raster image or raises
WriteImage ==
    /\ pc = "image"
    /\ \E ok \in BOOLEAN :
         IF ok
         THEN /\ log' = Append(log, "image")
              /\ pc' = "ln"
              /\ UNCHANGED <<faults, handler, result>>
         ELSE /\ \E k \in WriteFaultKinds : Raise("image", k)
              /\ UNCHANGED log
    /\ UNCHANGED <<image_path, profile, max_width, orig, img, printer, sock,
                   connAttempts, warned, exitCode>>

\* line 58: printer.ln(1) writes one line feed or raises
WriteLn ==
    /\ pc = "ln"
    /\ \E ok \in BOOLEAN :
         IF ok
         THEN /\ log' = Append(log, "ln")
              /\ pc' = "cut"
              /\ UNCHANGED <<faults, handler, result>>
         ELSE /\ \E k \in WriteFaultKinds : Raise("ln", k)
              /\ UNCHANGED log
    /\ UNCHANGED <<image_path, profile, max_width, orig, img, printer, sock,
                   connAttempts, warned, exitCode>>

\* line 59: printer.cut() writes the cut or raises
WriteCut ==
    /\ pc = "cut"
    /\ \E ok \in BOOLEAN :
         IF ok
         THEN /\ log' = Append(log, "cut")
              /\ pc' = "close"
              /\ UNCHANGED <<faults, handler, result>>
         ELSE /\ \E k \in WriteFaultKinds : Raise("cut", k)
              /\ UNCHANGED log
    /\ UNCHANGED <<image_path, profile, max_width, orig, img, printer, sock,
                   connAttempts, warned, exitCode>>

\* lines 62-65: printer.close() closes the socket, then return True; a
\* raise from close leaves the socket as it was
Close ==
    /\ pc = "close"
    /\ \E ok \in BOOLEAN :
         IF ok
         THEN /\ sock' = "closed"
              /\ log' = Append(log, "close")
              /\ result' = "True"
              /\ pc' = "return"
              /\ UNCHANGED <<faults, handler>>
         ELSE /\ \E k \in WriteFaultKinds : Raise("close", k)
              /\ UNCHANGED <<sock, log>>
    /\ UNCHANGED <<image_path, profile, max_width, orig, img, printer,
                   connAttempts, warned, exitCode>>

\* line 118: sys.exit(0 if success else 1)
Exit ==
    /\ pc = "return"
    /\ exitCode' = IF result = "True" THEN 0 ELSE 1
    /\ pc' = "exited"
    /\ UNCHANGED <<image_path, profile, max_width, orig, img, printer, sock,
                   connAttempts, log, warned, faults, handler, result>>

Next ==
    \/ Main
    \/ FileCheck
    \/ OpenImage
    \/ Convert
    \/ Scale
    \/ Connect
    \/ Fallback
    \/ WriteImage
    \/ WriteLn
    \/ WriteCut
    \/ Close
    \/ Exit

Spec == Init /\ [][Next]_vars

TypeOK ==
    /\ pc \in {"main", "check", "open", "convert", "scale", "connect",
               "fallback", "image", "ln", "cut", "close", "return", "exited"}
    /\ image_path \in Paths
    /\ profile \in Profiles
    /\ max_width \in WidthArgs
    /\ printer \in {"none", "named", "default"}
    /\ sock \in {"none", "open", "closed"}
    /\ connAttempts \in 0..2
    /\ warned \in BOOLEAN
    /\ handler \in {"none", "ConnectionError", "Exception"}
    /\ result \in {"none", "True", "False"}
    /\ exitCode \in {0 - 1, 0, 1}

(***************************************************************************)
(* Properties.                                                             *)
(***************************************************************************)
Wire == <<"image", "ln", "cut", "close">>

IsPrefix(s, t) == Len(s) <= Len(t) /\ s = SubSeq(t, 1, Len(s))

\* the scaling step of lines 41-45 has completed and left a bitmap in img
ScaleDone ==
    /\ pc \notin {"main", "check", "open", "convert", "scale"}
    /\ faults \cap {"missing", "decode", "convert", "resize"} = {}

Returned == pc \in {"return", "exited"}

\* C1: on every exit path on which a printer object was created, its
\* connection has been closed by the time the function returns.
C1_ClosedOnReturn ==
    (Returned /\ printer # "none") => sock = "closed"

\* C2: what is sent to the printer is, in order, the raster image, one
\* line feed, the cut, then close: each at most once, none without the ones
\* before it, and nothing after close.
C2_WriteOrder ==
    /\ IsPrefix(log, Wire)
    /\ (sock = "closed") <=> (log = Wire)

C2_Witness ==
    /\ pc = "return"
    /\ log = <<"image", "ln">>
    /\ "cut" \in faults

\* C3 as stated: for width, height, max_width > 0 and width # max_width
\* the scaled bitmap has width max_width and height
\* round(height * max_width / width), rounded to nearest (either way at a
\* tie).
C3_RoundedHeight ==
    (ScaleDone /\ max_width > 0 /\ orig.w # max_width) =>
        /\ img.w = max_width
        /\ \/ img.h = (2 * orig.h * max_width + orig.w) \div (2 * orig.w)
           \/ img.h = (2 * orig.h * max_width + orig.w - 1) \div (2 * orig.w)

\* C3 amended: for width, height, max_width > 0 and width # max_width a
\* scaled bitmap has width max_width and height
\* int(height * (max_width / width)), the double-precision product
\* truncated: floor(height * max_width / width), or one less in some cases
\* where width divides height * max_width and the product falls just below
\* the quotient.
C3_TruncatedHeight ==
    (ScaleDone /\ max_width > 0 /\ orig.w # max_width) =>
        LET q == (orig.h * max_width) \div orig.w
            exact == (orig.h * max_width) % orig.w = 0
        IN  /\ img.w = max_width
            /\ img.h \in {q, q - 1}
            /\ ~exact => img.h = q

C3_Witness ==
    /\ ScaleDone /\ pc = "connect"
    /\ orig = [w |-> 3, h |-> 2] /\ max_width = 4
    /\ img.w = 4 /\ img.h = 2

\* C4: for max_width > 0 the scaling step is idempotent: applied to the
\* bitmap it produced it changes neither width nor height, and a bitmap
\* whose width already equals max_width keeps its width and height.
C4_ScaleIdempotent ==
    (ScaleDone /\ max_width > 0) =>
        /\ ScaledSize(img.w, img.h, max_width) = [w |-> img.w, h |-> img.h]
        /\ orig.w = max_width => (img.w = orig.w /\ img.h = orig.h)

C4_Witness ==
    /\ ScaleDone /\ pc = "connect"
    /\ max_width = 5
    /\ orig = [w |-> 10, h |-> 7]
    /\ img.w = 5 /\ img.h = 3

\* C5: when the image file is missing or cannot be decoded the function
\* returns False, the process exits with status 1 and no connection to the
\* printer is attempted.
C5_NoImageNoConnection ==
    image_path # "valid" =>
        /\ connAttempts = 0
        /\ printer = "none"
        /\ Returned => result = "False"
        /\ pc = "exited" => exitCode = 1

C5_Witness ==
    /\ pc = "exited"
    /\ image_path = "corrupt"
    /\ "decode" \in faults
    /\ exitCode = 1

\* C6: each invocation makes at most one attempt to connect; a connection
\* fault ends the run with a connection error and no second attempt.
C6_SingleAttempt ==
    /\ connAttempts <= 1
    /\ ("connect" \in faults /\ Returned) =>
           (result = "False" /\ handler = "ConnectionError")

\* C7: with a profile name the library does not know, and no other step
\* faulting, the warning is printed, the session is opened without a
\* profile, the image, line feed and cut are sent and the exit status is 0.
C7_UnknownProfileFallsBack ==
    (pc = "exited" /\ profile = "unknown" /\ faults \subseteq {"profile"}) =>
        /\ warned
        /\ printer = "default"
        /\ log = Wire
        /\ exitCode = 0

C7_Witness ==
    /\ pc = "exited"
    /\ profile = "unknown"
    /\ faults = {"profile"}
    /\ exitCode = 0

\* C8: the exit code is 0 exactly when no step (file check, decode, scale,
\* connect, raster write, line feed, cut, close) faulted, and 1 otherwise;
\* every fault ends in a False return.
C8_ExitCodeIffNoFault ==
    pc = "exited" =>
        /\ exitCode \in {0, 1}
        /\ exitCode = 0 <=> (faults \ {"profile"} = {})
        /\ exitCode = 1 <=> result = "False"

\* C10: every bitmap handed to printer.image has width >= 1 and
\* height >= 1: the scaling step yields such a bitmap, or (max_width <= 0,
\* or a scaled height of 0) the run fails before any connection is opened.
C10_PositiveBitmap ==
    /\ ScaleDone => (img.w >= 1 /\ img.h >= 1)
    /\ (orig # NoSize /\ orig.w # max_width
          /\ (max_width <= 0 \/ NewHeight(orig.w, orig.h, max_width) <= 0)) =>
           /\ connAttempts = 0
           /\ printer = "none"
           /\ pc \notin {"connect", "fallback", "image", "ln", "cut", "close"}
           /\ Returned => result = "False"

C10_Witness ==
    /\ pc = "exited"
    /\ orig = [w |-> 3, h |-> 1]
    /\ max_width = 2
    /\ faults = {"resize"}
    /\ connAttempts = 0
    /\ exitCode = 1
====
